---- MODULE Spec2Model ----
(***************************************************************************)
(* FlowGoIntegrator (pyflowgo/flowgo_integrator.py): the explicit Euler    *)
(* stepper of a channelized lava flow.  single_step reads the FlowState    *)
(* and the collaborators (lava material, terrain, heat budget,             *)
(* crystallization-rate model), solves dT/dx and dphi/dx, logs, commits   *)
(* the new values and evaluates the termination conditions.                *)
(*                                                                         *)
(* Python floats are modelled as exact rationals <<numerator,denominator>>  *)
(* in lowest terms with a positive denominator; float rounding is not      *)
(* modelled.  A float division by zero raises ZeroDivisionError.           *)
(***************************************************************************)
EXTENDS Integers, Sequences, FiniteSets, TLC

VARIABLES
    state,        \* the FlowState handed to single_step (current_state)
    integrator,   \* the FlowGoIntegrator's own fields (self)
    log,          \* the diagnostics log: (variable name, position) -> value
    config,       \* the collaborators' fixed parameters for this run
    last,         \* what the last single_step call did, and what it consulted
    hist,         \* history of the run: initial position, assignments, cooling
    called,       \* the last call of an operation other than single_step
    other,        \* a second run: its own FlowState, integrator, log and last call
    models        \* the relative-viscosity models' configured parameters

vars == <<state, integrator, log, config, last, hist, called, other, models>>

----------------------------------------------------------------------------
(* Rational arithmetic                                                     *)

Abs(n) == IF n < 0 THEN -n ELSE n

RECURSIVE GCD(_, _)
GCD(a, b) == IF b = 0 THEN a ELSE GCD(b, a % b)

\* n/d in lowest terms, d # 0
Frac(n, d) ==
    LET g == GCD(Abs(n), Abs(d))
        s == IF d < 0 THEN -1 ELSE 1
    IN  <<(s * n) \div g, (s * d) \div g>>

R(n) == <<n, 1>>
Zero == R(0)

RAdd(a, b) == Frac(a[1] * b[2] + b[1] * a[2], a[2] * b[2])
RNeg(a) == <<-a[1], a[2]>>
RMul(a, b) == Frac(a[1] * b[1], a[2] * b[2])
RDiv(a, b) == Frac(a[1] * b[2], a[2] * b[1])
RLeq(a, b) == a[1] * b[2] <= b[1] * a[2]
RLt(a, b) == a[1] * b[2] < b[1] * a[2]
RGeq(a, b) == RLeq(b, a)

\* a value that was not produced or not consulted
Null == <<>>

----------------------------------------------------------------------------
(* Bounds and the values the collaborators may return                      *)

\* single_step commits at most MaxIter steps in a behaviour
MaxIter == 2

\* lava.compute_mean_velocity: stalled (<= 0) or flowing
MeanVelocities == {R(-1), Zero, Frac(3, 2), R(2)}
\* terrain.get_channel_depth
ChannelDepths == {Zero, R(3)}
\* terrain.get_channel_width (consulted at iteration 0 only)
ChannelWidths == {Zero, R(5)}
\* terrain.get_channel_slope
ChannelSlopes == {Frac(1, 10)}
\* heat_budget.compute_heat_budget: net gain, balance, net loss
HeatBudgets == {R(-6), Zero, R(6)}
\* crystallization_rate_model.compute_crystallization_rate
CrystallizationRates == {Zero, Frac(1, 100)}
\* lava.get_bulk_density: the same value at every step of a run
BulkDensities == {Zero, R(1)}
\* lava.computes_bulk_viscosity: a value, or the call raises
Raised == <<"raised">>
BulkViscosities == {R(1000), Raised}
\* lava.get_latent_heat_of_crystallization
LatentHeats == {Zero, R(1)}
\* crystallization_rate_model.get_solid_temperature
SolidTemperatures == {R(1360)}
\* terrain.get_max_channel_length
MaxChannelLengths == {R(2), R(3)}
\* the integrator's spatial step
StepSizes == {R(1), R(2)}
\* FlowState after initialization: eruption temperature, its crystal
\* fraction, starting position and time
EruptionTemperatures == {R(1400)}
InitialCrystalFractions == {Frac(1, 10), Frac(8, 25)}
InitialPositions == {Zero}

----------------------------------------------------------------------------
(* The diagnostics log                                                     *)

EmptyLog == <<>>

\* logger.add_variable(variable_name, position, value)
add_variable(lg, variable_name, position, value) ==
    (<<variable_name, position>> :> value) @@ lg

\* str(x), as logged for effusion_rate
str(x) == <<"str", x>>

----------------------------------------------------------------------------
(* The arithmetic of single_step, one definition per statement             *)

\* the stall check written v_mean < 0.
stalled_strict(v_mean) == RLt(v_mean, Zero)

\* line 33: if v_mean <= 0.
stalled(v_mean) == RLeq(v_mean, Zero)

\* the effusion rate recomputed at every step
is_first_step_always(iteration) == TRUE

\* line 42: if self.iteration == 0.
is_first_step(iteration) == iteration = 0

\* line 44: self.effusion_rate = v_mean * channel_width * channel_depth
initial_effusion_rate(v_mean, channel_width, channel_depth) ==
    RMul(RMul(v_mean, channel_width), channel_depth)

\* line 50: the divisor of the mass-conservation closure
width_divisor(v_mean, channel_depth) == RMul(v_mean, channel_depth)

\* the width derived without the channel depth
derive_channel_width_without_depth(effusion_rate, v_mean, channel_depth) ==
    RDiv(effusion_rate, v_mean)

\* line 50: channel_width = self.effusion_rate / (v_mean * channel_depth)
derive_channel_width(effusion_rate, v_mean, channel_depth) ==
    RDiv(effusion_rate, width_divisor(v_mean, channel_depth))

\* the heat budget taken without the sign change
right_hand_side_unsigned(heat_budget) == heat_budget

\* line 60: rhs = -self.heat_budget.compute_heat_budget(...)
right_hand_side(heat_budget) == RNeg(heat_budget)

\* the divisor without the crystallization rate
cooling_divisor_without_rate(effusion_rate, bulk_density, latent_heat, dphi_dtemp) ==
    RMul(RMul(effusion_rate, bulk_density), latent_heat)

\* line 75: the divisor of the cooling equation
cooling_divisor(effusion_rate, bulk_density, latent_heat, dphi_dtemp) ==
    RMul(RMul(RMul(effusion_rate, bulk_density), latent_heat), dphi_dtemp)

\* line 75: dtemp_dx = rhs / (effusion_rate * bulk_density * latent_heat * dphi_dtemp)
cooling_per_metre(rhs, effusion_rate, bulk_density, latent_heat, dphi_dtemp) ==
    RDiv(rhs, cooling_divisor(effusion_rate, bulk_density, latent_heat, dphi_dtemp))

\* line 78: dphi_dx = dtemp_dx * (-dphi_dtemp)
crystallization_per_metre(dtemp_dx, dphi_dtemp) == RMul(dtemp_dx, RNeg(dphi_dtemp))

\* lines 85 and 92: the Euler step x + dx_dx * self.dx
euler_step(x, slope, dx) == RAdd(x, RMul(slope, dx))

\* line 125: current_position + self.dx
advance_position(position, dx) == RAdd(position, dx)

\* line 126: current_time + self.dx / v_mean
advance_time(time, dx, v_mean) == RAdd(time, RDiv(dx, v_mean))

\* line 130: the literal 0.52
packing_limit == Frac(13, 25)

\* the packing condition written new_phi > 0.52
termination_reached_strict_packing(new_temp_core, new_phi, position, solid_temperature, max_channel_length) ==
    \/ RLeq(new_temp_core, solid_temperature)
    \/ RLt(packing_limit, new_phi)
    \/ RGeq(position, max_channel_length)

\* the length condition written position > max_channel_length
termination_reached_strict_length(new_temp_core, new_phi, position, solid_temperature, max_channel_length) ==
    \/ RLeq(new_temp_core, solid_temperature)
    \/ RGeq(new_phi, packing_limit)
    \/ RLt(max_channel_length, position)

\* the solidus condition left out
termination_reached_without_solidus(new_temp_core, new_phi, position, solid_temperature, max_channel_length) ==
    \/ RGeq(new_phi, packing_limit)
    \/ RGeq(position, max_channel_length)

\* lines 130-131: the condition under which the step sets _has_finished
termination_reached(new_temp_core, new_phi, position, solid_temperature, max_channel_length) ==
    \/ RLeq(new_temp_core, solid_temperature)
    \/ RGeq(new_phi, packing_limit)
    \/ RGeq(position, max_channel_length)

\* lines 130-131: the getters the `or` chain evaluates, left to right
termination_calls(new_temp_core, new_phi, solid_temperature) ==
    IF RLeq(new_temp_core, solid_temperature) \/ RGeq(new_phi, packing_limit)
    THEN <<"get_solid_temperature">>
    ELSE <<"get_solid_temperature", "get_max_channel_length">>

----------------------------------------------------------------------------
(* single_step: the set of results of one call, one per combination of     *)
(* values the consulted collaborators return                               *)

\* what a call has consulted and computed so far
Locals(current_state, this) ==
    [outcome |-> "none", line |-> 0, calls |-> <<>>,
     pre_state |-> current_state, pre_integrator |-> this,
     v_mean |-> Null, channel_depth |-> Null, terrain_width |-> Null,
     channel_width |-> Null, heat_budget |-> Null, dphi_dtemp |-> Null,
     bulk_density |-> Null, dtemp_dx |-> Null, dphi_dx |-> Null]

Result(current_state, this, lg, loc) ==
    [state |-> current_state, integrator |-> this, log |-> lg, last |-> loc]

\* an exception leaves single_step at `line`
Raise(current_state, this, lg, loc, line) ==
    Result(current_state, this, lg, [loc EXCEPT !.outcome = "error", !.line = line])

\* lines 95-99: the entries logged before the viscosity is computed
log_before_viscosity(lg, current_state, loc) ==
    LET position == current_state.current_position
        l1 == add_variable(lg, "channel_width", position, loc.channel_width)
        l2 == add_variable(l1, "crystal_fraction", position, current_state.crystal_fraction)
    IN  add_variable(l2, "core_temperature", position, current_state.core_temperature)

\* the entries of dphi_dx and dtemp_dx logged under each other's name
log_from_viscosity_rates_swapped(lg, current_state, this, loc, viscosity, channel_slope) ==
    LET position == current_state.current_position
        l1 == add_variable(lg, "viscosity", position, viscosity)
        l2 == add_variable(l1, "mean_velocity", position, loc.v_mean)
        l3 == add_variable(l2, "core_temperature", position, current_state.core_temperature)
        l4 == add_variable(l3, "dphi_dx", position, loc.dtemp_dx)
        l5 == add_variable(l4, "dtemp_dx", position, loc.dphi_dx)
        l6 == add_variable(l5, "dphi_dtemp", position, loc.dphi_dtemp)
        l7 == add_variable(l6, "current_time", position, current_state.current_time)
        l8 == add_variable(l7, "slope", position, channel_slope)
        l9 == add_variable(l8, "effusion_rate", position, str(this.effusion_rate))
    IN  add_variable(l9, "channel_depth", position, loc.channel_depth)

\* lines 100-115: the entries logged from the viscosity on
log_from_viscosity(lg, current_state, this, loc, viscosity, channel_slope) ==
    LET position == current_state.current_position
        l1 == add_variable(lg, "viscosity", position, viscosity)
        l2 == add_variable(l1, "mean_velocity", position, loc.v_mean)
        l3 == add_variable(l2, "core_temperature", position, current_state.core_temperature)
        l4 == add_variable(l3, "dphi_dx", position, loc.dphi_dx)
        l5 == add_variable(l4, "dtemp_dx", position, loc.dtemp_dx)
        l6 == add_variable(l5, "dphi_dtemp", position, loc.dphi_dtemp)
        l7 == add_variable(l6, "current_time", position, current_state.current_time)
        l8 == add_variable(l7, "slope", position, channel_slope)
        l9 == add_variable(l8, "effusion_rate", position, str(this.effusion_rate))
    IN  add_variable(l9, "channel_depth", position, loc.channel_depth)

\* lines 122-133: commit the new values, count the step, test termination
commit(current_state, this, lg, cfg, loc, new_phi, new_temp_core) ==
    LET new_state ==
            [current_position |-> advance_position(current_state.current_position, this.dx),
             current_time |-> advance_time(current_state.current_time, this.dx, loc.v_mean),
             core_temperature |-> new_temp_core,
             crystal_fraction |-> new_phi]
        done == termination_reached(new_temp_core, new_phi, new_state.current_position,
                                    cfg.solid_temperature, cfg.max_channel_length)
        new_this == [this EXCEPT !.iteration = @ + 1,
                                 !.has_finished = IF done THEN TRUE ELSE @]
        calls == loc.calls \o termination_calls(new_temp_core, new_phi, cfg.solid_temperature)
    IN  Result(new_state, new_this, lg,
               [loc EXCEPT !.outcome = "committed", !.line = 133, !.calls = calls])

\* the new crystal fraction and temperature stored in the FlowState before
\* the logging, hence before the viscosity is consulted
step_update_sets_state_first(current_state, this, lg, cfg, loc, channel_slope, viscosity) ==
    LET new_phi == euler_step(current_state.crystal_fraction, loc.dphi_dx, this.dx)
        new_temp_core == euler_step(current_state.core_temperature, loc.dtemp_dx, this.dx)
        lg1 == log_before_viscosity(lg, current_state, loc)
        loc1 == [loc EXCEPT !.calls = @ \o <<"computes_bulk_viscosity">>]
    IN  IF viscosity = Raised
        THEN Raise([current_state EXCEPT !.crystal_fraction = new_phi,
                                         !.core_temperature = new_temp_core],
                   this, lg1, loc1, 101)
        ELSE commit(current_state, this,
                    log_from_viscosity(lg1, current_state, this, loc, viscosity, channel_slope),
                    cfg, loc1, new_phi, new_temp_core)

\* lines 84-133: the Euler step, the log (the viscosity is consulted in the
\* middle of the logging) and the commit
step_update(current_state, this, lg, cfg, loc, channel_slope, viscosity) ==
    LET new_phi == euler_step(current_state.crystal_fraction, loc.dphi_dx, this.dx)
        new_temp_core == euler_step(current_state.core_temperature, loc.dtemp_dx, this.dx)
        lg1 == log_before_viscosity(lg, current_state, loc)
        loc1 == [loc EXCEPT !.calls = @ \o <<"computes_bulk_viscosity">>]
    IN  IF viscosity = Raised
        THEN Raise(current_state, this, lg1, loc1, 101)
        ELSE commit(current_state, this,
                    log_from_viscosity(lg1, current_state, this, loc, viscosity, channel_slope),
                    cfg, loc1, new_phi, new_temp_core)

\* lines 53-78: slope, heat budget, crystallization rate and the cooling
\* equation; the result is an error, or the call still in progress
step_cooling(current_state, this, lg, cfg, loc, heat_budget, dphi_dtemp) ==
    LET rhs == right_hand_side(heat_budget)
        bulk_density == cfg.bulk_density
        latent_heat == cfg.latent_heat
        loc1 == [loc EXCEPT
                    !.heat_budget = heat_budget,
                    !.dphi_dtemp = dphi_dtemp,
                    !.bulk_density = bulk_density,
                    !.calls = @ \o <<"get_channel_slope", "compute_heat_budget",
                                     "compute_crystallization_rate", "get_bulk_density",
                                     "get_latent_heat_of_crystallization">>]
    IN  IF cooling_divisor(this.effusion_rate, bulk_density, latent_heat, dphi_dtemp) = Zero
        THEN Raise(current_state, this, lg, loc1, 75)
        ELSE LET dtemp_dx == cooling_per_metre(rhs, this.effusion_rate, bulk_density,
                                               latent_heat, dphi_dtemp)
                 dphi_dx == crystallization_per_metre(dtemp_dx, dphi_dtemp)
             IN  Result(current_state, this, lg,
                        [loc1 EXCEPT !.dtemp_dx = dtemp_dx, !.dphi_dx = dphi_dx])

\* lines 39-50: channel depth, the effusion rate at iteration 0, the width;
\* the result is an error, or the call still in progress
step_geometry(current_state, this, lg, loc, channel_depth, terrain_width) ==
    LET first == is_first_step(this.iteration)
        this1 == IF first
                 THEN [this EXCEPT !.effusion_rate =
                          initial_effusion_rate(loc.v_mean, terrain_width, channel_depth)]
                 ELSE this
        loc1 == [loc EXCEPT
                    !.channel_depth = channel_depth,
                    !.terrain_width = terrain_width,
                    !.calls = @ \o (IF first
                                    THEN <<"get_channel_depth", "get_channel_width">>
                                    ELSE <<"get_channel_depth">>)]
    IN  IF width_divisor(loc.v_mean, channel_depth) = Zero
        THEN Raise(current_state, this1, lg, loc1, 50)
        ELSE Result(current_state, this1, lg,
                    [loc1 EXCEPT !.channel_width =
                        derive_channel_width(this1.effusion_rate, loc.v_mean, channel_depth)])

\* lines 31-35: the mean velocity and the stall check; the result is the
\* stalled call, or the call still in progress
step_velocity(current_state, this, lg, v_mean) ==
    LET loc == [Locals(current_state, this) EXCEPT
                    !.v_mean = v_mean, !.calls = <<"compute_mean_velocity">>]
    IN  IF stalled(v_mean)
        THEN Result(current_state, [this EXCEPT !.has_finished = TRUE], lg,
                    [loc EXCEPT !.outcome = "stalled", !.line = 35])
        ELSE Result(current_state, this, lg, loc)

\* the call has returned or raised
Ended(r) == r.last.outcome # "none"

\* lines 136-137
has_finished(this) == this.has_finished

----------------------------------------------------------------------------
(* The state machine                                                       *)

\* lines 10-22: the integrator after construction
NewIntegrator(dx) ==
    [dx |-> dx, has_finished |-> FALSE, effusion_rate |-> Zero, iteration |-> 0]

\* no operation other than single_step has been called
NoCall == [op |-> "none"]

\* the class attributes of the relative-viscosity models
\* (flowgo_relative_viscosity_model_costa2.py line 26,
\* flowgo_relative_viscosity_model_kd.py lines 36-37)
DefaultModels ==
    [costa2 |-> [strain_rate |-> R(1)],
     kd |-> [phimax |-> Frac(641,1000), beinstein |-> Frac(327,100)]]

\* lines 10-22 for a second integrator, with a FlowState of its own
SecondRun ==
    LET current_state == [current_position |-> Zero, current_time |-> Zero,
                          core_temperature |-> R(1400),
                          crystal_fraction |-> Frac(1,10)]
        this == NewIntegrator(R(2))
    IN  [state |-> current_state, integrator |-> this, log |-> EmptyLog,
         last |-> Locals(current_state, this)]

\* dx, _has_finished, effusion_rate and iteration held by the class: an
\* assignment to self.effusion_rate is seen by every instance
class_attributes(that, this) == [that EXCEPT !.effusion_rate = this.effusion_rate]

\* lines 14-17, 34, 44, 128, 133: dx, _has_finished, effusion_rate and
\* iteration are attributes of the instance; when `this` instance has
\* assigned its own, `that` other instance holds what it held
instance_attributes(that, this) == that

Init ==
    /\ state \in [current_position : InitialPositions, current_time : {Zero},
                  core_temperature : EruptionTemperatures,
                  crystal_fraction : InitialCrystalFractions]
    /\ integrator \in {NewIntegrator(dx) : dx \in StepSizes}
    /\ log = EmptyLog
    /\ config \in [solid_temperature : SolidTemperatures,
                   max_channel_length : MaxChannelLengths,
                   bulk_density : BulkDensities,
                   latent_heat : LatentHeats]
    /\ last = Locals(state, integrator)
    /\ hist = [initial_position |-> state.current_position,
               effusion_assigned |-> FALSE,
               all_cooled |-> TRUE,
               initializations |-> 0]
    /\ called = NoCall
    /\ other = SecondRun
    /\ models = DefaultModels

\* line 44 was executed by the call that left `loc`
assigns_effusion_rate(loc) ==
    /\ is_first_step(loc.pre_integrator.iteration)
    /\ loc.channel_depth # Null

\* the call returns or raises: its effects become the new state
Return(r) ==
    /\ state' = r.state
    /\ integrator' = r.integrator
    /\ log' = r.log
    /\ last' = r.last
    /\ hist' = [hist EXCEPT
                   !.effusion_assigned = @ \/ assigns_effusion_rate(r.last),
                   !.all_cooled = @ /\ (r.last.outcome = "committed" =>
                        RLt(r.state.core_temperature, state.core_temperature))]
    /\ other' = [other EXCEPT !.integrator = instance_attributes(@, r.integrator)]
    /\ UNCHANGED <<config, called, models>>

\* lines 24-133: one call of single_step on the run's FlowState; each \E is
\* a collaborator consulted at that point of the call
SingleStep ==
    /\ integrator.iteration < MaxIter
    /\ \E v_mean \in MeanVelocities :
         \E r1 \in {step_velocity(state, integrator, log, v_mean)} :
         IF Ended(r1) THEN Return(r1) ELSE
         \E channel_depth \in ChannelDepths,
            terrain_width \in (IF is_first_step(integrator.iteration)
                              THEN ChannelWidths ELSE {Null}) :
            \E r2 \in {step_geometry(r1.state, r1.integrator, r1.log, r1.last,
                                       channel_depth, terrain_width)} :
            IF Ended(r2) THEN Return(r2) ELSE
            \E channel_slope \in ChannelSlopes, heat_budget \in HeatBudgets,
               dphi_dtemp \in CrystallizationRates :
               \E r3 \in {step_cooling(r2.state, r2.integrator, r2.log, config, r2.last,
                                         heat_budget, dphi_dtemp)} :
               IF Ended(r3) THEN Return(r3) ELSE
               \E viscosity \in BulkViscosities :
                  \E r4 \in {step_update(r3.state, r3.integrator, r3.log, config, r3.last,
                                          channel_slope, viscosity)} :
                     Return(r4)

Next == SingleStep

Spec == Init /\ [][Next]_vars

\* the driving loop: single_step is called until has_finished() is true; an
\* exception leaves the loop
RunStep ==
    /\ ~has_finished(integrator)
    /\ last.outcome # "error"
    /\ SingleStep

RunNext == RunStep

RunSpec == Init /\ [][RunNext]_vars /\ WF_vars(RunNext)

----------------------------------------------------------------------------
(* Properties of single_step                                               *)

\* the last call was made while Running and ran to its end
CommittedWhileRunning ==
    /\ last.outcome = "committed"
    /\ ~last.pre_integrator.has_finished

\* the three termination conditions on the committed values, as the
\* specification words them
SolidusReached == RLeq(state.core_temperature, config.solid_temperature)
PackingReached == RGeq(state.crystal_fraction, Frac(52, 100))
LengthReached == RGeq(state.current_position, config.max_channel_length)

\* C1: after a single_step call made while Running that passed the stall
\* check and completed, the integrator is Finished if and only if the
\* committed temperature is <= the solidus, or the committed crystal fraction
\* is >= 0.52, or the committed position is >= the maximum channel length.
C1_FinishedIffTerminationCondition ==
    CommittedWhileRunning =>
        (integrator.has_finished <=> (SolidusReached \/ PackingReached \/ LengthReached))

\* a step from Running that finishes on the packing condition alone, the
\* crystal fraction being exactly 0.52
C1_Witness ==
    /\ CommittedWhileRunning
    /\ integrator.has_finished
    /\ state.crystal_fraction = Frac(52, 100)
    /\ ~SolidusReached
    /\ ~LengthReached

\* C2: a call that computes a mean velocity <= 0 sets Finished and does
\* nothing else: FlowState, effusion rate, iteration counter and log are
\* unchanged and only compute_mean_velocity was consulted.
C2_StallHasNoOtherEffect ==
    [][(last'.v_mean # Null /\ RLeq(last'.v_mean, Zero)) =>
          /\ integrator'.has_finished
          /\ state' = state
          /\ log' = log
          /\ integrator'.effusion_rate = integrator.effusion_rate
          /\ integrator'.iteration = integrator.iteration
          /\ last'.calls = <<"compute_mean_velocity">>]_vars

\* a stall met while Running, after a committed step has filled the log
C2_Witness ==
    /\ last.outcome = "stalled"
    /\ ~last.pre_integrator.has_finished
    /\ last.pre_integrator.iteration >= 1
    /\ integrator.has_finished

\* C3 as stated: once effusion_rate has been assigned, no later call assigns
\* it again and its value never changes.
C3_AssignedExactlyOnce ==
    [][hist.effusion_assigned =>
          /\ ~assigns_effusion_rate(last')
          /\ integrator'.effusion_rate = integrator.effusion_rate]_vars

\* C3 amended: effusion_rate changes only in a call made with iteration
\* counter 0 that passes the stall check; once a step has committed it never
\* changes again.
C3_FixedAfterFirstCommit ==
    [][/\ integrator'.effusion_rate # integrator.effusion_rate =>
            (integrator.iteration = 0 /\ RLt(Zero, last'.v_mean))
       /\ integrator.iteration >= 1 =>
            integrator'.effusion_rate = integrator.effusion_rate]_vars

\* a second committed step taken with another mean velocity than the first,
\* the effusion rate of the first step (2 * 5 * 3) being kept
C3_Witness ==
    /\ integrator.iteration = 2
    /\ last.outcome = "committed"
    /\ last.v_mean = Frac(3, 2)
    /\ integrator.effusion_rate = R(30)

\* C4: in a step that passes the stall check and derives the channel width,
\* width * depth * v_mean = effusion_rate; at the first step the width is
\* the terrain's width, later it is effusion_rate / (v_mean * depth); a
\* committed step logs this width at the position the step began at.
C4_MassConservation ==
    last.channel_width # Null =>
        /\ RMul(RMul(last.channel_width, last.channel_depth), last.v_mean)
              = integrator.effusion_rate
        /\ last.pre_integrator.iteration = 0 => last.channel_width = last.terrain_width
        /\ last.pre_integrator.iteration >= 1 =>
              /\ integrator.effusion_rate = last.pre_integrator.effusion_rate
              /\ last.channel_width =
                    Frac(integrator.effusion_rate[1] * last.v_mean[2] * last.channel_depth[2],
                         integrator.effusion_rate[2] * last.v_mean[1] * last.channel_depth[1])
        /\ last.outcome = "committed" =>
              log[<<"channel_width", last.pre_state.current_position>>] = last.channel_width

\* the second step of the scenario: effusion rate 30 from the first step,
\* v_mean 1.5, depth 3, hence width 30 / 4.5 = 20/3
C4_Witness ==
    /\ last.outcome = "committed"
    /\ last.pre_integrator.iteration = 1
    /\ integrator.effusion_rate = R(30)
    /\ last.v_mean = Frac(3, 2)
    /\ last.channel_depth = R(3)
    /\ last.channel_width = Frac(20, 3)

\* C5 as stated: every step committed while Running leaves the temperature
\* no higher, the crystal fraction no lower and the position no lower.
C5_MonotoneAlways ==
    CommittedWhileRunning =>
        /\ RLeq(state.core_temperature, last.pre_state.core_temperature)
        /\ RGeq(state.crystal_fraction, last.pre_state.crystal_fraction)
        /\ RGeq(state.current_position, last.pre_state.current_position)

\* C5 amended: the position never decreases (dx > 0); the temperature does
\* not rise and the crystal fraction does not fall in a step whose heat
\* budget is a net loss (>= 0), the effusion rate, bulk density, latent heat
\* and crystallization rate being positive.
C5_MonotoneUnderNetLoss ==
    CommittedWhileRunning =>
        /\ RGeq(state.current_position, last.pre_state.current_position)
        /\ (/\ RGeq(last.heat_budget, Zero)
            /\ RLt(Zero, integrator.effusion_rate)
            /\ RLt(Zero, config.bulk_density)
            /\ RLt(Zero, config.latent_heat)
            /\ RLt(Zero, last.dphi_dtemp)) =>
              /\ RLeq(state.core_temperature, last.pre_state.core_temperature)
              /\ RGeq(state.crystal_fraction, last.pre_state.crystal_fraction)

\* a step under net heat loss that cooled the flow and grew crystals
C5_Witness ==
    /\ CommittedWhileRunning
    /\ RLt(Zero, last.heat_budget)
    /\ RLt(state.core_temperature, last.pre_state.core_temperature)
    /\ RLt(last.pre_state.crystal_fraction, state.crystal_fraction)

\* C6: a run driven as "call single_step until has_finished()" in which the
\* core temperature strictly decreases at every step reaches Finished: in
\* every run, eventually the integrator is Finished, or a step raised, or a
\* committed step did not lower the temperature.
C6_CoolingRunFinishes ==
    <>(integrator.has_finished \/ last.outcome = "error" \/ ~hist.all_cooled)

\* a run of two cooling steps that ends on the solidus
C6_Witness ==
    /\ integrator.has_finished
    /\ hist.all_cooled
    /\ integrator.iteration = 2
    /\ last.outcome = "committed"
    /\ SolidusReached
    /\ ~PackingReached
    /\ ~LengthReached

\* C7: a step that reaches the cooling equation with a zero divisor
\* (crystallization rate, effusion rate, bulk density or latent heat zero)
\* ends in an error at line 75 and commits nothing.
C7_ZeroDivisorIsFatal ==
    (/\ last.dphi_dtemp # Null
     /\ \/ last.dphi_dtemp = Zero
        \/ integrator.effusion_rate = Zero
        \/ config.bulk_density = Zero
        \/ config.latent_heat = Zero) =>
        /\ last.outcome = "error"
        /\ last.line = 75
        /\ state = last.pre_state
        /\ integrator.iteration = last.pre_integrator.iteration

\* a first step rejected for a zero crystallization rate, every other
\* factor of the divisor being positive
C7_Witness ==
    /\ last.outcome = "error"
    /\ last.pre_integrator.iteration = 0
    /\ last.dphi_dtemp = Zero
    /\ RLt(Zero, integrator.effusion_rate)
    /\ RLt(Zero, config.bulk_density)
    /\ RLt(Zero, config.latent_heat)

\* C8: a call that ends in an error leaves the FlowState, the iteration
\* counter and the finished flag as they were, and leaves every log entry of
\* the earlier committed steps (those keyed by an earlier position) as it was.
C8_ErrorCommitsNothing ==
    [][last'.outcome = "error" =>
          /\ state' = state
          /\ integrator'.iteration = integrator.iteration
          /\ integrator'.has_finished = integrator.has_finished
          /\ \A k \in DOMAIN log :
                RLt(k[2], state.current_position) =>
                    (k \in DOMAIN log' /\ log'[k] = log[k])]_vars

\* an error raised in the middle of the logging (the viscosity call), after
\* a committed step
C8_Witness ==
    /\ last.outcome = "error"
    /\ last.line = 101
    /\ last.pre_integrator.iteration >= 1
    /\ <<"channel_width", state.current_position>> \in DOMAIN log

\* C9: after n committed steps the position is the initial position + n * dx,
\* whatever the maximum channel length; a committed step that takes the
\* position to or past the maximum channel length leaves the integrator
\* Finished.
C9_PositionAdvancesByDx ==
    /\ state.current_position =
          Frac(hist.initial_position[1] * integrator.dx[2]
                  + integrator.iteration * integrator.dx[1] * hist.initial_position[2],
               hist.initial_position[2] * integrator.dx[2])
    /\ (last.outcome = "committed" /\ LengthReached) => integrator.has_finished

\* a step from Running that overshoots the maximum channel length: Finished,
\* the position kept past the boundary
C9_Witness ==
    /\ CommittedWhileRunning
    /\ integrator.has_finished
    /\ RLt(config.max_channel_length, state.current_position)
    /\ RLt(last.pre_state.current_position, config.max_channel_length)

\* C10: once the integrator is Finished, no single_step call changes the
\* FlowState.
C10_FinishedStateIsFrozen ==
    [][integrator.has_finished => state' = state]_vars

----------------------------------------------------------------------------
(* Initialization of the state (lines 144-153)                             *)

\* values get_eruption_temperature returns, one of them below the solidus
InitialTemperatures == {R(1300), R(1400)}

\* line 150: the equilibrium crystal fraction at a temperature, above the
\* packing limit below the solidus
get_crystal_fraction(temperature) ==
    IF RLeq(temperature, R(1360)) THEN Frac(3,5) ELSE Frac(1,10)

\* the number of initialize_state calls explored on one integrator
MaxInitializations == 1

\* initialize_state that evaluates the termination predicate on the seed
initialize_state_checking_termination(current_state, this, cfg, file_state, initial_temperature, initial_crystal_fraction) ==
    [state |-> [file_state EXCEPT !.crystal_fraction = initial_crystal_fraction,
                                  !.core_temperature = initial_temperature],
     integrator |-> [this EXCEPT !.has_finished =
                        @ \/ termination_reached(initial_temperature,
                                                 initial_crystal_fraction,
                                                 file_state.current_position,
                                                 cfg.solid_temperature,
                                                 cfg.max_channel_length)]]

\* initialize_state that starts the integrator afresh
initialize_state_restarting(current_state, this, cfg, file_state, initial_temperature, initial_crystal_fraction) ==
    [state |-> [file_state EXCEPT !.crystal_fraction = initial_crystal_fraction,
                                  !.core_temperature = initial_temperature],
     integrator |-> NewIntegrator(this.dx)]

\* lines 144-153: `file_state` is current_state after line 146 has read the
\* state's own initial condition; lines 152-153 overwrite its crystal
\* fraction and core temperature; no field of the integrator is assigned
initialize_state(current_state, this, cfg, file_state, initial_temperature, initial_crystal_fraction) ==
    [state |-> [file_state EXCEPT !.crystal_fraction = initial_crystal_fraction,
                                  !.core_temperature = initial_temperature],
     integrator |-> this]

\* line 146: the state's own initial condition yields a starting position
\* and time and leaves the other fields to lines 152-153
read_initial_condition_from_json_file(current_state) ==
    {[current_state EXCEPT !.current_position = position, !.current_time = Zero] :
        position \in InitialPositions}

\* one call of initialize_state on the run's FlowState
InitializeState ==
    /\ hist.initializations < MaxInitializations
    /\ \E file_state \in read_initial_condition_from_json_file(state),
          initial_temperature \in InitialTemperatures :
       \E initial_crystal_fraction \in {get_crystal_fraction(initial_temperature)} :
       \E r \in {initialize_state(state, integrator, config, file_state,
                                  initial_temperature, initial_crystal_fraction)} :
          /\ state' = r.state
          /\ integrator' = r.integrator
          /\ last' = [Locals(state, integrator) EXCEPT !.outcome = "initialized",
                                                       !.line = 153]
          /\ called' = [op |-> "initialize_state",
                        initial_temperature |-> initial_temperature,
                        initial_crystal_fraction |-> initial_crystal_fraction]
          /\ hist' = [hist EXCEPT !.initializations = @ + 1]
          /\ UNCHANGED <<log, config, other, models>>

\* the calls a driver can make on one integrator, in any order
LifeNext == SingleStep \/ InitializeState

\* a newly constructed integrator and a FlowState not yet initialized, for
\* one material (density and latent heat nonzero) and one channel
LifeInit ==
    /\ Init
    /\ config.bulk_density # Zero
    /\ config.latent_heat # Zero
    /\ config.max_channel_length = R(2)
    /\ integrator.dx = R(1)
    /\ state.crystal_fraction = Frac(8,25)

LifeSpec == LifeInit /\ [][LifeNext]_vars

\* C17: after initialize_state the FlowState holds the eruption temperature
\* and the equilibrium crystal fraction at that temperature, and the
\* integrator is as it was before the call: a newly constructed integrator
\* is still Running with iteration 0 and effusion_rate unset (0.), even when
\* the seed satisfies a termination condition.
C17_InitializationSeedsState ==
    last.outcome = "initialized" =>
        /\ state.core_temperature = called.initial_temperature
        /\ state.crystal_fraction = called.initial_crystal_fraction
        /\ integrator = last.pre_integrator
        /\ (last.pre_integrator = NewIntegrator(integrator.dx) =>
               /\ ~has_finished(integrator)
               /\ integrator.iteration = 0
               /\ integrator.effusion_rate = Zero)

\* a newly constructed integrator initialized with a seed below the solidus
\* and above the packing limit, over a state that held other values
C17_Witness ==
    /\ last.outcome = "initialized"
    /\ last.pre_integrator = NewIntegrator(integrator.dx)
    /\ RLeq(state.core_temperature, config.solid_temperature)
    /\ RGeq(state.crystal_fraction, Frac(52,100))
    /\ last.pre_state.core_temperature # state.core_temperature
    /\ last.pre_state.crystal_fraction # state.crystal_fraction
    /\ ~has_finished(integrator)

\* C18: the finished flag is false on construction and, once true, stays
\* true across every single_step and initialize_state call.
C18_FinishedIsMonotone ==
    /\ ~has_finished(integrator)
    /\ [][has_finished(integrator) => has_finished(integrator')]_vars

\* a finished integrator has been initialized again and stepped again, and
\* is still finished
C18_Witness ==
    /\ has_finished(integrator)
    /\ last.pre_integrator.has_finished
    /\ last.outcome = "committed"
    /\ called.op = "initialize_state"
    /\ last.pre_state.current_position = hist.initial_position

----------------------------------------------------------------------------
(* Two runs stepped in an interleaving                                     *)

\* what the second run's collaborators return: a stall or a flowing
\* channel that cools
SecondMeanVelocities == {Zero, R(2)}
SecondChannelDepths == {R(3)}
SecondChannelWidths == {R(5)}
SecondHeatBudgets == {R(6)}
SecondCrystallizationRates == {Frac(1,100)}
SecondBulkViscosities == {R(1000)}

\* the second run's call returns or raises
ReturnSecond(r) ==
    /\ other' = [state |-> r.state, integrator |-> r.integrator,
                 log |-> r.log, last |-> r.last]
    /\ integrator' = instance_attributes(integrator, r.integrator)
    /\ UNCHANGED <<state, log, config, last, hist, called, models>>

\* lines 24-133: one call of single_step of the second integrator on the
\* second FlowState
SingleStepSecond ==
    /\ other.integrator.iteration < MaxIter
    /\ \E v_mean \in SecondMeanVelocities :
         \E r1 \in {step_velocity(other.state, other.integrator, other.log, v_mean)} :
         IF Ended(r1) THEN ReturnSecond(r1) ELSE
         \E channel_depth \in SecondChannelDepths,
            terrain_width \in (IF is_first_step(other.integrator.iteration)
                              THEN SecondChannelWidths ELSE {Null}) :
            \E r2 \in {step_geometry(r1.state, r1.integrator, r1.log, r1.last,
                                       channel_depth, terrain_width)} :
            IF Ended(r2) THEN ReturnSecond(r2) ELSE
            \E channel_slope \in ChannelSlopes, heat_budget \in SecondHeatBudgets,
               dphi_dtemp \in SecondCrystallizationRates :
               \E r3 \in {step_cooling(r2.state, r2.integrator, r2.log, config, r2.last,
                                         heat_budget, dphi_dtemp)} :
               IF Ended(r3) THEN ReturnSecond(r3) ELSE
               \E viscosity \in SecondBulkViscosities :
                  \E r4 \in {step_update(r3.state, r3.integrator, r3.log, config, r3.last,
                                          channel_slope, viscosity)} :
                     ReturnSecond(r4)

\* either run is stepped next
TwoNext == SingleStep \/ SingleStepSecond

TwoSpec == LifeInit /\ [][TwoNext]_vars

\* `r` is a call that ended, leaving the FlowState and the integrator as
\* `new_state` and `new_this`
EndedAs(r, new_state, new_this) ==
    Ended(r) /\ r.state = new_state /\ r.integrator = new_this

\* (new_state, new_this) is what single_step of one integrator alone makes
\* of (current_state, this) with the collaborator values the call that left
\* `loc` consulted
SteppedAlone(current_state, this, loc, new_state, new_this) ==
    \E r1 \in {step_velocity(current_state, this, EmptyLog, loc.v_mean)} :
    IF Ended(r1) THEN EndedAs(r1, new_state, new_this) ELSE
    \E r2 \in {step_geometry(r1.state, r1.integrator, r1.log, r1.last,
                             loc.channel_depth, loc.terrain_width)} :
    IF Ended(r2) THEN EndedAs(r2, new_state, new_this) ELSE
    \E r3 \in {step_cooling(r2.state, r2.integrator, r2.log, config, r2.last,
                            loc.heat_budget, loc.dphi_dtemp)} :
    IF Ended(r3) THEN EndedAs(r3, new_state, new_this) ELSE
    \E channel_slope \in ChannelSlopes :
    \E r4 \in {step_update(r3.state, r3.integrator, r3.log, config, r3.last,
                           channel_slope,
                           IF loc.outcome = "error" THEN Raised ELSE R(1000))} :
       EndedAs(r4, new_state, new_this)

\* across one step of the interleaving, a run whose integrator was called
\* moves as it would alone, and a run that was not called does not move
MovesAsAlone(current_state, this, loc, new_state, new_this, new_loc) ==
    IF new_loc # loc
    THEN /\ new_loc.pre_state = current_state
         /\ new_loc.pre_integrator = this
         /\ SteppedAlone(current_state, this, new_loc, new_state, new_this)
    ELSE <<new_state, new_this>> = <<current_state, this>>

\* C16: when two integrators, each with its own FlowState, are stepped in
\* any interleaving, every step changes the FlowState, effusion_rate,
\* iteration and finished flag of the stepped run exactly as single_step
\* alone would, and leaves those of the other run as they were.
C16_RunsAreIndependent ==
    [][/\ MovesAsAlone(state, integrator, last, state', integrator', last')
       /\ MovesAsAlone(other.state, other.integrator, other.last,
                       other.state', other.integrator', other.last')]_vars

\* both runs have committed steps and hold different effusion rates
C16_Witness ==
    /\ integrator.iteration = 2
    /\ other.integrator.iteration = 1
    /\ last.outcome = "committed"
    /\ other.last.outcome = "committed"
    /\ integrator.effusion_rate # other.integrator.effusion_rate
    /\ state.current_time # other.state.current_time

----------------------------------------------------------------------------
(* The relative-viscosity models                                           *)

\* crystal fractions the FlowState holds when a model is consulted
CrystalFractions ==
    {Zero, Frac(1,5), Frac(7,25), Frac(7,20), Frac(39,100), Frac(2,5),
     Frac(21,50), Frac(11,25), Frac(1,2), Frac(641,1000)}

\* strain_rate values a parameter file may hold
StrainRates == {R(1), Frac(1,10000), Frac(1,2)}

\* max_packing and einstein_coef values a parameter file may hold
MaxPackings == {Frac(641,1000), Frac(1,2)}
EinsteinCoefs == {Frac(327,100), Frac(5,2)}

\* what a Python function returns when it falls off its end
None == <<"None">>

\* exceptions of the float library
ValueError == <<"ValueError">>
ZeroDivisionError == <<"ZeroDivisionError">>
IsError(x) == x \in {ValueError, ZeroDivisionError}

\* math.pow and math.erf at the arguments the models pass, to three
\* significant digits
pow_table ==
    (<<<<1, 5>>, <<-327, 200>>>> :> <<139, 10>>) @@
    (<<<<1, 5>>, <<-5, 4>>>> :> <<187, 25>>) @@
    (<<<<1, 1000>>, <<7, 10>>>> :> <<397, 50000>>) @@
    (<<<<1, 5000>>, <<13, 20>>>> :> <<197, 50000>>) @@
    (<<<<3, 2>>, <<11, 2>>>> :> <<93, 10>>) @@
    (<<<<3, 2>>, <<15, 2>>>> :> <<209, 10>>) @@
    (<<<<3, 2>>, <<89, 20>>>> :> <<152, 25>>) @@
    (<<<<3, 2>>, <<171, 20>>>> :> <<32, 1>>) @@
    (<<<<3, 5>>, <<-327, 200>>>> :> <<231, 100>>) @@
    (<<<<3, 5>>, <<-5, 4>>>> :> <<189, 100>>) @@
    (<<<<3, 10>>, <<-327, 200>>>> :> <<179, 25>>) @@
    (<<<<3, 10>>, <<-5, 4>>>> :> <<9, 2>>) @@
    (<<<<3, 25>>, <<-327, 200>>>> :> <<32, 1>>) @@
    (<<<<3, 25>>, <<-5, 4>>>> :> <<71, 5>>) @@
    (<<<<4, 25>>, <<-327, 200>>>> :> <<20, 1>>) @@
    (<<<<4, 25>>, <<-5, 4>>>> :> <<247, 25>>) @@
    (<<<<5, 4>>, <<89, 20>>>> :> <<27, 10>>) @@
    (<<<<5, 4>>, <<171, 20>>>> :> <<337, 50>>) @@
    (<<<<5, 7>>, <<89, 20>>>> :> <<28, 125>>) @@
    (<<<<5, 7>>, <<171, 20>>>> :> <<563, 10000>>) @@
    (<<<<10, 7>>, <<89, 20>>>> :> <<489, 100>>) @@
    (<<<<10, 7>>, <<171, 20>>>> :> <<211, 10>>) @@
    (<<<<10, 13>>, <<11, 2>>>> :> <<59, 250>>) @@
    (<<<<10, 13>>, <<15, 2>>>> :> <<7, 50>>) @@
    (<<<<11, 7>>, <<89, 20>>>> :> <<747, 100>>) @@
    (<<<<11, 7>>, <<171, 20>>>> :> <<477, 10>>) @@
    (<<<<11, 25>>, <<-327, 200>>>> :> <<383, 100>>) @@
    (<<<<11, 25>>, <<-5, 4>>>> :> <<279, 100>>) @@
    (<<<<11, 50>>, <<-327, 200>>>> :> <<119, 10>>) @@
    (<<<<11, 50>>, <<-5, 4>>>> :> <<166, 25>>) @@
    (<<<<14, 13>>, <<11, 2>>>> :> <<3, 2>>) @@
    (<<<<14, 13>>, <<15, 2>>>> :> <<87, 50>>) @@
    (<<<<20, 13>>, <<11, 2>>>> :> <<107, 10>>) @@
    (<<<<20, 13>>, <<15, 2>>>> :> <<253, 10>>) @@
    (<<<<21, 13>>, <<11, 2>>>> :> <<14, 1>>) @@
    (<<<<21, 13>>, <<15, 2>>>> :> <<73, 2>>) @@
    (<<<<22, 13>>, <<11, 2>>>> :> <<181, 10>>) @@
    (<<<<22, 13>>, <<15, 2>>>> :> <<517, 10>>) @@
    (<<<<25, 13>>, <<11, 2>>>> :> <<73, 2>>) @@
    (<<<<25, 13>>, <<15, 2>>>> :> <<135, 1>>) @@
    (<<<<25, 14>>, <<89, 20>>>> :> <<66, 5>>) @@
    (<<<<25, 14>>, <<171, 20>>>> :> <<142, 1>>) @@
    (<<<<35, 26>>, <<11, 2>>>> :> <<513, 100>>) @@
    (<<<<35, 26>>, <<15, 2>>>> :> <<929, 100>>) @@
    (<<<<39, 28>>, <<89, 20>>>> :> <<437, 100>>) @@
    (<<<<39, 28>>, <<171, 20>>>> :> <<17, 1>>) @@
    (<<<<141, 641>>, <<-209607, 100000>>>> :> <<239, 10>>) @@
    (<<<<141, 641>>, <<-641, 400>>>> :> <<113, 10>>) @@
    (<<<<201, 641>>, <<-209607, 100000>>>> :> <<57, 5>>) @@
    (<<<<201, 641>>, <<-641, 400>>>> :> <<641, 100>>) @@
    (<<<<221, 641>>, <<-209607, 100000>>>> :> <<233, 25>>) @@
    (<<<<221, 641>>, <<-641, 400>>>> :> <<551, 100>>) @@
    (<<<<241, 641>>, <<-209607, 100000>>>> :> <<777, 100>>) @@
    (<<<<241, 641>>, <<-641, 400>>>> :> <<24, 5>>) @@
    (<<<<251, 641>>, <<-209607, 100000>>>> :> <<357, 50>>) @@
    (<<<<251, 641>>, <<-641, 400>>>> :> <<449, 100>>) @@
    (<<<<291, 641>>, <<-209607, 100000>>>> :> <<523, 100>>) @@
    (<<<<291, 641>>, <<-641, 400>>>> :> <<177, 50>>) @@
    (<<<<361, 641>>, <<-209607, 100000>>>> :> <<333, 100>>) @@
    (<<<<361, 641>>, <<-641, 400>>>> :> <<251, 100>>) @@
    (<<<<441, 641>>, <<-209607, 100000>>>> :> <<219, 100>>) @@
    (<<<<441, 641>>, <<-641, 400>>>> :> <<91, 50>>) @@
    (<<<<641, 260>>, <<11, 2>>>> :> <<143, 1>>) @@
    (<<<<641, 260>>, <<15, 2>>>> :> <<869, 1>>) @@
    (<<<<641, 280>>, <<89, 20>>>> :> <<399, 10>>) @@
    (<<<<641, 280>>, <<171, 20>>>> :> <<1190, 1>>) @@
    (<<<<700, 1>>, <<1333, 1000>>>> :> <<6200, 1>>) @@
    (<<<<1000, 1>>, <<1333, 1000>>>> :> <<9980, 1>>) @@
    (<<<<1400, 1>>, <<1333, 1000>>>> :> <<15600, 1>>) @@
    (<<<<3247, 250000>>, <<7, 10>>>> :> <<239, 5000>>) @@
    (<<<<5999, 5000000>>, <<13, 20>>>> :> <<63, 5000>>) @@
    (<<<<6200, 1>>, <<3, 4>>>> :> <<699, 1>>) @@
    (<<<<9980, 1>>, <<3, 4>>>> :> <<998, 1>>) @@
    (<<<<10900, 1>>, <<3, 4>>>> :> <<1070, 1>>) @@
    (<<<<12790, 1>>, <<3, 4>>>> :> <<1200, 1>>) @@
    (<<<<15600, 1>>, <<3, 4>>>> :> <<1400, 1>>) @@
    (<<<<21541, 62500>>, <<7, 10>>>> :> <<237, 500>>) @@
    (<<<<1165767, 5000000>>, <<13, 20>>>> :> <<97, 250>>)

erf_table ==
    (<<1772, 999>> :> <<247, 250>>) @@
    (<<155050, 64987>> :> <<999, 1000>>) @@
    (<<222829, 333000>> :> <<82, 125>>) @@
    (<<273774, 324935>> :> <<767, 1000>>)

\* math.pow(x, y): a zero base with a negative exponent and a negative base
\* with a non-integer exponent are domain errors
math_pow(x, y) ==
    IF x = Zero /\ RLt(y, Zero) THEN ValueError
    ELSE IF RLt(x, Zero) /\ y[2] # 1 THEN ValueError
    ELSE IF y = Zero \/ x = R(1) THEN R(1)
    ELSE IF x = Zero THEN Zero
    ELSE pow_table[<<x, y>>]

\* math.erf(x): 1.0 in float arithmetic from x = 6 on
math_erf(x) ==
    IF RGeq(x, R(6)) THEN R(1)
    ELSE IF x = Zero THEN Zero
    ELSE erf_table[x]

\* math.sqrt(math.pi)
sqrt_pi == Frac(443,250)

\* the erf argument passed on unclamped
unclamped(a, b) == b

\* Python's min of two floats
min(a, b) == IF RLt(b, a) THEN b ELSE a

\* costa2 lines 46-47 and 62-63: the raw argument of erf
raw_argument(phi, gama_1, phi_star_1, epsilon_1) ==
    RMul(RMul(RDiv(sqrt_pi, RMul(R(2), RAdd(R(1), RNeg(epsilon_1)))),
              RDiv(phi, phi_star_1)),
         RAdd(R(1), math_pow(RDiv(phi, phi_star_1), gama_1)))

\* costa2 lines 45-51 and 61-67: one regime's formula
costa_regime(phi, delta_1, gama_1, phi_star_1, epsilon_1) ==
    LET raw == raw_argument(phi, gama_1, phi_star_1, epsilon_1)
        arg == min(R(25), raw)
        f == RMul(RAdd(R(1), RNeg(epsilon_1)), math_erf(arg))
        relative_viscosity ==
            RDiv(RAdd(R(1), math_pow(RDiv(phi, phi_star_1), delta_1)),
                 math_pow(RAdd(R(1), RNeg(f)), RMul(Frac(5,2), phi_star_1)))
    IN  [outcome |-> "returned", result |-> relative_viscosity,
         erf_argument |-> arg, f |-> f]

\* costa2 lines 34-67: neither `if` taken, the function falls off its end
costa2_compute_relative_viscosity(phi, strain_rate) ==
    IF strain_rate = R(1)
    THEN costa_regime(phi, Frac(445,100), Frac(855,100), Frac(28,100), Frac(1,1000))
    ELSE IF strain_rate = Frac(1,10000)
    THEN costa_regime(phi, Frac(75,10), Frac(55,10), Frac(26,100), Frac(2,10000))
    ELSE [outcome |-> "returned", result |-> None,
          erf_argument |-> Null, f |-> Null]

\* kd lines 45-49
kd_compute_relative_viscosity(phi, phimax, beinstein) ==
    IF phimax = Zero
    THEN [outcome |-> "raised", result |-> ZeroDivisionError]
    ELSE LET relative_viscosity ==
                 math_pow(RAdd(R(1), RNeg(RDiv(phi, phimax))),
                          RNeg(RMul(beinstein, phimax)))
         IN  IF IsError(relative_viscosity)
             THEN [outcome |-> "raised", result |-> relative_viscosity]
             ELSE [outcome |-> "returned", result |-> relative_viscosity]

\* costa2 lines 28-32: the strain rate is stored as read
CostaReadInitialCondition ==
    /\ \E strain_rate \in StrainRates :
          models' = [models EXCEPT !.costa2.strain_rate = strain_rate]
    /\ called' = [op |-> "costa2.read_initial_condition_from_json_file",
                  outcome |-> "returned"]
    /\ UNCHANGED <<state, integrator, log, config, last, hist, other>>

\* costa2 lines 34-67
CostaComputeRelativeViscosity ==
    /\ \E r \in {costa2_compute_relative_viscosity(state.crystal_fraction,
                                                   models.costa2.strain_rate)} :
          called' = [op |-> "costa2.compute_relative_viscosity",
                     phi |-> state.crystal_fraction,
                     outcome |-> r.outcome, result |-> r.result,
                     erf_argument |-> r.erf_argument, f |-> r.f]
    /\ UNCHANGED <<state, integrator, log, config, last, hist, other, models>>

\* kd lines 39-43
KDReadInitialCondition ==
    /\ \E max_packing \in MaxPackings, einstein_coef \in EinsteinCoefs :
          models' = [models EXCEPT !.kd = [phimax |-> max_packing,
                                           beinstein |-> einstein_coef]]
    /\ called' = [op |-> "kd.read_initial_condition_from_json_file",
                  outcome |-> "returned"]
    /\ UNCHANGED <<state, integrator, log, config, last, hist, other>>

\* kd lines 45-49
KDComputeRelativeViscosity ==
    /\ \E r \in {kd_compute_relative_viscosity(state.crystal_fraction,
                                               models.kd.phimax,
                                               models.kd.beinstein)} :
          called' = [op |-> "kd.compute_relative_viscosity",
                     phi |-> state.crystal_fraction,
                     outcome |-> r.outcome, result |-> r.result]
    /\ UNCHANGED <<state, integrator, log, config, last, hist, other, models>>

\* a run that has not been stepped, around the FlowState `state`
UnsteppedRun ==
    /\ integrator = NewIntegrator(R(1))
    /\ log = EmptyLog
    /\ config = [solid_temperature |-> R(1360), max_channel_length |-> R(2),
                 bulk_density |-> R(1), latent_heat |-> R(1)]
    /\ last = Locals(state, integrator)
    /\ hist = [initial_position |-> state.current_position,
               effusion_assigned |-> FALSE,
               all_cooled |-> TRUE,
               initializations |-> 0]
    /\ called = NoCall
    /\ other = SecondRun

ViscosityInit ==
    /\ state \in [current_position : {Zero}, current_time : {Zero},
                  core_temperature : {R(1400)},
                  crystal_fraction : CrystalFractions]
    /\ UnsteppedRun
    /\ models = DefaultModels

ViscosityNext ==
    \/ CostaReadInitialCondition
    \/ CostaComputeRelativeViscosity
    \/ KDReadInitialCondition
    \/ KDComputeRelativeViscosity

ViscositySpec == ViscosityInit /\ [][ViscosityNext]_vars

\* the strain rates the Costa model has a regime for
SupportedStrainRates == {R(1), Frac(1,10000)}

\* C12: configuring the Costa model with a strain rate other than 1.0 and
\* 1.0e-4 fails, so the model never holds an unsupported strain rate and
\* compute_relative_viscosity always returns a number.
C12_UnsupportedStrainRateRejected ==
    /\ models.costa2.strain_rate \in SupportedStrainRates
    /\ (called.op = "costa2.compute_relative_viscosity" => called.result # None)

\* the value a diverging float computation returns
Infinity == <<"inf">>

\* C13: Krieger-Dougherty compute_relative_viscosity at phi = phi_max with
\* a positive Einstein coefficient returns a non-finite value; it does not
\* raise.
C13_DivergesWithoutError ==
    (/\ called.op = "kd.compute_relative_viscosity"
     /\ called.phi = models.kd.phimax
     /\ RLt(Zero, models.kd.beinstein))
    => (called.outcome = "returned" /\ called.result = Infinity)

\* the parameters of the regime of a supported strain rate
RegimeOf(strain_rate) ==
    IF strain_rate = R(1)
    THEN [gama |-> Frac(855,100), phi_star |-> Frac(28,100), epsilon |-> Frac(1,1000)]
    ELSE [gama |-> Frac(55,10), phi_star |-> Frac(26,100), epsilon |-> Frac(2,10000)]

\* the raw erf argument of the last Costa computation
LastRawArgument ==
    LET p == RegimeOf(models.costa2.strain_rate)
    IN  raw_argument(called.phi, p.gama, p.phi_star, p.epsilon)

\* C14: in both Costa regimes the argument passed to erf is min(25, raw
\* argument): above 25 the computed f is (1 - eps) * erf(25) exactly, and a
\* raw argument of at most 25 is passed unchanged.
C14_ErfArgumentClamped ==
    (/\ called.op = "costa2.compute_relative_viscosity"
     /\ models.costa2.strain_rate \in SupportedStrainRates)
    => IF RLt(R(25), LastRawArgument)
       THEN /\ called.erf_argument = R(25)
            /\ called.f = RMul(RAdd(R(1), RNeg(RegimeOf(models.costa2.strain_rate).epsilon)),
                               math_erf(R(25)))
       ELSE called.erf_argument = LastRawArgument

\* the clamp is exercised in the low-strain-rate regime
C14_Witness ==
    /\ called.op = "costa2.compute_relative_viscosity"
    /\ models.costa2.strain_rate = Frac(1,10000)
    /\ RLt(R(25), LastRawArgument)
    /\ called.erf_argument = R(25)
    /\ called.f = Frac(4999,5000)

----------------------------------------------------------------------------
(* The forced-convection heat flux                                         *)

\* crust_temperature_model.compute_crust_temperature, in kelvin
CrustTemperatures == {R(700), R(1000)}
\* effective_cover_crust_model.compute_effective_cover_fraction, in [0, 1]
EffectiveCoverFractions == {Zero, Frac(1,2), R(1)}
\* material_lava.computes_molten_material_temperature, in kelvin
MoltenMaterialTemperatures == {R(1400)}
\* material_air.compute_conv_heat_transfer_coef
ConvHeatTransferCoefs == {R(10), R(50)}
\* material_air.get_temperature, in kelvin
AirTemperatures == {R(300)}
\* the channel_width argument of compute_flux
FluxChannelWidths == {R(3), R(5)}
\* positions and times of the FlowState handed to compute_flux
FluxPositions == {Zero, R(1), R(2)}
FluxTimes == {Zero, Frac(1,2)}

\* x ** y for floats: a zero base with a negative exponent raises; the
\* bases here are temperatures in kelvin
power(x, y) ==
    IF x = Zero /\ RLt(y, Zero) THEN ZeroDivisionError ELSE math_pow(x, y)

\* the three entries keyed by the state's current time
compute_characteristic_surface_temperature_keyed_by_time(lg, current_state, crust_temperature, effective_cover_fraction, molten_material_temperature) ==
    LET characteristic_surface_temperature ==
            math_pow(RAdd(RMul(effective_cover_fraction,
                               power(crust_temperature, Frac(1333,1000))),
                          RMul(RAdd(R(1), RNeg(effective_cover_fraction)),
                               power(molten_material_temperature, Frac(1333,1000)))),
                     Frac(3,4))
        key == current_state.current_time
        l1 == add_variable(lg, "characteristic_surface_temperature", key,
                           characteristic_surface_temperature)
        l2 == add_variable(l1, "crust_temperature", key, crust_temperature)
        l3 == add_variable(l2, "effective_cover_fraction", key,
                           effective_cover_fraction)
    IN  [log |-> l3, value |-> characteristic_surface_temperature]

\* flux lines 18-40
compute_characteristic_surface_temperature(lg, current_state, crust_temperature, effective_cover_fraction, molten_material_temperature) ==
    LET characteristic_surface_temperature ==
            math_pow(RAdd(RMul(effective_cover_fraction,
                               power(crust_temperature, Frac(1333,1000))),
                          RMul(RAdd(R(1), RNeg(effective_cover_fraction)),
                               power(molten_material_temperature, Frac(1333,1000)))),
                     Frac(3,4))
        l1 == add_variable(lg, "characteristic_surface_temperature",
                           current_state.current_position,
                           characteristic_surface_temperature)
        l2 == add_variable(l1, "crust_temperature",
                           current_state.current_position, crust_temperature)
        l3 == add_variable(l2, "effective_cover_fraction",
                           current_state.current_position, effective_cover_fraction)
    IN  [log |-> l3, value |-> characteristic_surface_temperature]

\* flux lines 42-53; `surface` is what line 46 returned and logged
compute_flux(current_state, channel_width, conv_heat_transfer_coef, air_temperature, surface) ==
    [state |-> current_state,
     log |-> surface.log,
     result |-> RMul(RMul(conv_heat_transfer_coef,
                          RAdd(surface.value, RNeg(air_temperature))),
                     channel_width)]

\* one call of compute_flux on the run's FlowState; each \E is an argument
\* or a collaborator consulted by the call
ComputeFlux ==
    \E channel_width \in FluxChannelWidths,
       conv_heat_transfer_coef \in ConvHeatTransferCoefs,
       air_temperature \in AirTemperatures,
       crust_temperature \in CrustTemperatures,
       effective_cover_fraction \in EffectiveCoverFractions,
       molten_material_temperature \in MoltenMaterialTemperatures :
       \E surface \in {compute_characteristic_surface_temperature(
                           log, state, crust_temperature,
                           effective_cover_fraction, molten_material_temperature)} :
       \E r \in {compute_flux(state, channel_width, conv_heat_transfer_coef,
                              air_temperature, surface)} :
          /\ state' = r.state
          /\ log' = r.log
          /\ called' = [op |-> "flux.compute_flux",
                        pre_state |-> state, pre_log |-> log,
                        crust_temperature |-> crust_temperature,
                        effective_cover_fraction |-> effective_cover_fraction,
                        characteristic_surface_temperature |-> surface.value,
                        result |-> r.result]
          /\ UNCHANGED <<integrator, config, last, hist, other, models>>

FluxInit ==
    /\ state \in [current_position : FluxPositions, current_time : FluxTimes,
                  core_temperature : {R(1400)},
                  crystal_fraction : {Frac(1,10)}]
    /\ UnsteppedRun
    /\ models = DefaultModels

FluxNext == ComputeFlux

FluxSpec == FluxInit /\ [][FluxNext]_vars

\* the keys compute_flux is to write for a FlowState at `position`
FluxKeys(position) ==
    {<<"characteristic_surface_temperature", position>>,
     <<"crust_temperature", position>>,
     <<"effective_cover_fraction", position>>}

\* C15: a compute_flux call records exactly three entries -
\* characteristic_surface_temperature, crust_temperature and
\* effective_cover_fraction - keyed by the FlowState's current position,
\* changes no other entry of the log, and leaves the FlowState unchanged.
C15_FluxLogsThreeEntries ==
    called.op = "flux.compute_flux" =>
        LET position == called.pre_state.current_position
        IN  /\ DOMAIN log = DOMAIN called.pre_log \cup FluxKeys(position)
            /\ log[<<"characteristic_surface_temperature", position>>]
                  = called.characteristic_surface_temperature
            /\ log[<<"crust_temperature", position>>] = called.crust_temperature
            /\ log[<<"effective_cover_fraction", position>>]
                  = called.effective_cover_fraction
            /\ \A k \in DOMAIN called.pre_log \ FluxKeys(position) :
                  log[k] = called.pre_log[k]
            /\ state = called.pre_state

\* a call on a FlowState whose position differs from its time, on a log that
\* already held the three entries with other values
C15_Witness ==
    /\ called.op = "flux.compute_flux"
    /\ state.current_position # state.current_time
    /\ FluxKeys(state.current_position) \subseteq DOMAIN called.pre_log
    /\ called.pre_log[<<"crust_temperature", state.current_position>>]
          # called.crust_temperature
    /\ Cardinality(DOMAIN log) = 3

----------------------------------------------------------------------------
(* The diagnostics of a committed step                                     *)

\* the log holds `value` for `variable_name` at the position the last call
\* began at
LoggedAtStart(variable_name, value) ==
    /\ <<variable_name, last.pre_state.current_position>> \in DOMAIN log
    /\ log[<<variable_name, last.pre_state.current_position>>] = value

\* the intermediate quantities of the last call, logged at the position the
\* call began at
IntermediatesLogged ==
    /\ LoggedAtStart("channel_width", last.channel_width)
    /\ LoggedAtStart("mean_velocity", last.v_mean)
    /\ LoggedAtStart("dphi_dx", last.dphi_dx)
    /\ LoggedAtStart("dtemp_dx", last.dtemp_dx)
    /\ LoggedAtStart("dphi_dtemp", last.dphi_dtemp)
    /\ LoggedAtStart("effusion_rate", <<"str", integrator.effusion_rate>>)
    /\ LoggedAtStart("channel_depth", last.channel_depth)
    /\ LoggedAtStart("current_time", last.pre_state.current_time)
    /\ \E channel_slope \in ChannelSlopes : LoggedAtStart("slope", channel_slope)
    /\ \E viscosity \in BulkViscosities \ {Raised} : LoggedAtStart("viscosity", viscosity)

\* C11 as stated: a committed step logs, at the position it began at, the
\* intermediate quantities and the crystal fraction and core temperature it
\* commits (the updated values).
C11_LogsUpdatedValues ==
    last.outcome = "committed" =>
        /\ IntermediatesLogged
        /\ LoggedAtStart("crystal_fraction", state.crystal_fraction)
        /\ LoggedAtStart("core_temperature", state.core_temperature)

\* C11 amended: a committed step logs, at the position it began at, the
\* intermediate quantities and the crystal fraction and core temperature the
\* FlowState had when the step began (the values before the update); no
\* entry is keyed by the committed position.
C11_LogsValuesAtStart ==
    last.outcome = "committed" =>
        /\ IntermediatesLogged
        /\ LoggedAtStart("crystal_fraction", last.pre_state.crystal_fraction)
        /\ LoggedAtStart("core_temperature", last.pre_state.core_temperature)
        /\ \A k \in DOMAIN log : k[2] # state.current_position

\* a second committed step under net heat loss: the committed temperature
\* and crystal fraction differ from the logged ones
C11_Witness ==
    /\ last.outcome = "committed"
    /\ last.pre_integrator.iteration = 1
    /\ RLt(Zero, last.heat_budget)
    /\ state.core_temperature # last.pre_state.core_temperature
    /\ LoggedAtStart("core_temperature", last.pre_state.core_temperature)

====
